---- MODULE Spec2Model ----
(***************************************************************************)
(* Model of the rust_snake engine (src/src/lib.rs, src/src/snake.rs,       *)
(* src/src/map.rs): the Game struct with its map, its snake and its state, *)
(* and the public operations new, turn_snake, move_snake, game_over and    *)
(* restart.                                                                *)
(***************************************************************************)
EXTENDS Integers, Sequences, FiniteSets, TLC

\* ------------------------------------------------------------------ bounds

\* Grids W x H with W >= 1, H >= 1 and W * H <= MaxCells are explored by Spec.
MaxCells == 4
\* Grids W x H with W, H in 1..LineMax are explored by SpecLine.
LineMax == 5
\* At most MaxOverMoves calls of move_snake are explored while state is
\* GameOver (a caller may go on calling it for ever).
MaxOverMoves == 3
\* SpecSnake: target sizes 0..MaxSnakeSize, trails of at most MaxTrail
\* entries, and forward() only while the head is at most MaxOut cells
\* outside the grid.
MaxSnakeSize == 2
MaxTrail == 3
MaxOut == 1
\* Grids W x H with W * H <= MaxSnakeCells are explored by SpecSnake.
MaxSnakeCells == 2
\* Grids W x H with W * H <= MaxPlayCells are explored by SpecPlay.
MaxPlayCells == 8
\* Grids W x H with W * H <= MaxMapCells are explored by SpecMap.
MaxMapCells == 3
\* Grids W x H with W * H <= MaxHostCells are explored by SpecHost, whose
\* channel holds at most MaxChan directions not yet received.
MaxHostCells == 4
MaxChan == 2
\* Width of usize in the model; `as usize` wraps modulo 2^UsizeBits.
UsizeBits == 16

\* ------------------------------------------------------- program constants

INITIAL_SNAKE_SIZE == 3

\* ------------------------------------------------------------------- state

VARIABLES
    W,       \* const generic W of Game<W, H>
    H,       \* const generic H of Game<W, H>
    map,     \* Game.map: data[x][y], a function from <<x, y>> to a Tile
    snake,   \* Game.snake: [head, dir, size, tail]
    state,   \* Game.state
    status,  \* "ok": the last call returned; "hang": it loops forever in
             \* create_food; "panic": it failed the bounds assertion of Map
    last,    \* the last call: its name, the direction passed to turn_snake,
             \* the result of opposite in turn, the tile move_snake read,
             \* whether cut_tail removed an entry and which
    over,    \* number of move_snake calls made while state was GameOver
             \* since new() or the last restart()
    host     \* the terminal host: the position of main, the channel, the
             \* receiver, the input thread and its `last`, and the latest
             \* input event

vars == <<W, H, map, snake, state, status, last, over, host>>

Direction == {"Left", "Right", "Up", "Down", "None"}
Cardinal == {"Left", "Right", "Up", "Down"}
Tile == {"Empty", "Snake", "Food"}
State == {"Running", "Paused", "GameOver"}

\* ------------------------------------------------------------ snake.rs

\* Variant of Direction_x: None moves one column to the right.
Direction_x_noneRight(d) == IF d = "Left" THEN -1 ELSE 1

Direction_x(d) == IF d = "Left" THEN -1 ELSE IF d = "Right" THEN 1 ELSE 0

Direction_y(d) == IF d = "Up" THEN -1 ELSE IF d = "Down" THEN 1 ELSE 0

\* Variant of opposite: None opposes nothing, itself included.
opposite_cardinal(self, d) ==
    /\ self # "None"
    /\ Direction_x(self) + Direction_x(d) = 0
    /\ Direction_y(self) + Direction_y(d) = 0

opposite(self, d) ==
    /\ Direction_x(self) + Direction_x(d) = 0
    /\ Direction_y(self) + Direction_y(d) = 0

\* `v as usize` for an isize v: two's complement wrap-around.
AsUsize(v) == v % (2 ^ UsizeBits)

\* `v as isize` for a usize v that is W / 2 or H / 2.
AsIsize(v) == IF v >= 2 ^ (UsizeBits - 1) THEN v - 2 ^ UsizeBits ELSE v

Snake_new(x, y, sz) ==
    [head |-> <<AsIsize(x), AsIsize(y)>>, dir |-> "None", size |-> sz, tail |-> <<>>]

\* Variant of turn: no test of the opposite direction.
turn_always(s, d) == [s EXCEPT !.dir = d]

turn(s, d) == IF ~opposite(s.dir, d) THEN [s EXCEPT !.dir = d] ELSE s

\* Variant of forward: the cell the head leaves is not recorded in the trail.
forward_noPush(s) ==
    [s EXCEPT !.head = <<s.head[1] + Direction_x(s.dir),
                         s.head[2] + Direction_y(s.dir)>>]

forward(s) ==
    [s EXCEPT !.tail = Append(@, <<AsUsize(s.head[1]), AsUsize(s.head[2])>>),
              !.head = <<s.head[1] + Direction_x(s.dir),
                         s.head[2] + Direction_y(s.dir)>>]

\* ------------------------------------------------------------ map.rs

Cells == (0 .. W - 1) \X (0 .. H - 1)

Map_new == [c \in Cells |-> "Empty"]

Map_in_bounds(x, y) == x < W /\ y < H

\* Map::get and Map::set assert in_bounds(x, y) first; callers test
\* Map_in_bounds and take the "panic" outcome when it is false.
Map_get(m, x, y) == m[<<x, y>>]

\* Variant of Map_set: the whole column data[x] is overwritten.
Map_set_column(m, x, y, t) == [c \in DOMAIN m |-> IF c[1] = x THEN t ELSE m[c]]

Map_set(m, x, y, t) == [m EXCEPT ![<<x, y>>] = t]

\* ------------------------------------------------------------ snake.rs

Snake_in_bounds(s) ==
    /\ 0 <= s.head[1]
    /\ 0 <= s.head[2]
    /\ Map_in_bounds(AsUsize(s.head[1]), AsUsize(s.head[2]))

touching_tile(s, m) == Map_get(m, AsUsize(s.head[1]), AsUsize(s.head[2]))

\* Variant of place_head: the grid is left as it is.
place_head_skip(s, m) == m

place_head(s, m) == Map_set(m, AsUsize(s.head[1]), AsUsize(s.head[2]), "Snake")

\* cut_tail: whether it removes an entry, whether the removal panics (in
\* Vec::remove(0) on an empty trail, or in Map::set), and the snake and the
\* map it leaves.
\* Variant of cut_tail_cuts: the tail may exceed the size by one.
cut_tail_cuts_gt(s) == Len(s.tail) > s.size

cut_tail_cuts(s) == Len(s.tail) >= s.size

cut_tail_panics(s) ==
    /\ cut_tail_cuts(s)
    /\ (Len(s.tail) = 0 \/ ~Map_in_bounds(s.tail[1][1], s.tail[1][2]))

cut_tail_snake(s) ==
    IF cut_tail_cuts(s) /\ Len(s.tail) > 0 THEN [s EXCEPT !.tail = Tail(@)] ELSE s

\* Variant of cut_tail_map: clears the newest trail cell.
cut_tail_map_newest(s, m) ==
    IF cut_tail_cuts(s) /\ ~cut_tail_panics(s)
    THEN Map_set(m, s.tail[Len(s.tail)][1], s.tail[Len(s.tail)][2], "Empty")
    ELSE m

cut_tail_map(s, m) ==
    IF cut_tail_cuts(s) /\ ~cut_tail_panics(s)
    THEN Map_set(m, s.tail[1][1], s.tail[1][2], "Empty")
    ELSE m

\* ------------------------------------------------------------ lib.rs

\* Variant of sample_accepts: every cell that is not Snake is accepted.
sample_accepts_notSnake(m, c) == m[c] # "Snake"

\* The test of one iteration of create_food's loop on the sampled cell c.
sample_accepts(m, c) == m[c] = "Empty"

EmptyCells(m) == {c \in DOMAIN m : sample_accepts(m, c)}

\* Variant of create_food: accepts every cell that is not Snake.
create_food_notSnake(m) ==
    {Map_set(m, c[1], c[2], "Food") : c \in {c \in DOMAIN m : m[c] # "Snake"}}

\* create_food: the maps the sampling loop can end with; none when no cell
\* is Empty, and then the loop never ends.
create_food(m) == {Map_set(m, c[1], c[2], "Food") : c \in EmptyCells(m)}

\* ------------------------------------ the Map methods called directly

\* The record of a direct call of Map::get or Map::set kept in `last`: the
\* arguments, and the tile passed to set or returned by get ("-" when the
\* assertion failed).
MapCall(nm, x, y, t) == [name |-> nm, x |-> x, y |-> y, tile |-> t]

Map_get_call(x, y) ==
    /\ status = "ok"
    /\ IF Map_in_bounds(x, y)
       THEN status' = "ok" /\ last' = MapCall("get", x, y, Map_get(map, x, y))
       ELSE status' = "panic" /\ last' = MapCall("get", x, y, "-")
    /\ UNCHANGED <<W, H, map, snake, state, over, host>>

Map_set_call(x, y, t) ==
    /\ status = "ok"
    /\ IF Map_in_bounds(x, y)
       THEN status' = "ok" /\ map' = Map_set(map, x, y, t)
       ELSE status' = "panic" /\ map' = map
    /\ last' = MapCall("set", x, y, t)
    /\ UNCHANGED <<W, H, snake, state, over, host>>

\* --------------------- create_food called directly, one sample per step

\* The call enters the loop.
create_food_call ==
    /\ status = "ok"
    /\ status' = "sampling"
    /\ last' = [name |-> "create_food", sample |-> <<>>]
    /\ UNCHANGED <<W, H, map, snake, state, over, host>>

\* One iteration: the cell c = (fx, fy) is sampled; the loop ends with c
\* set to Food when the test accepts c and goes on otherwise.
create_food_sample(c) ==
    /\ status = "sampling"
    /\ c \in DOMAIN map
    /\ IF sample_accepts(map, c)
       THEN map' = Map_set(map, c[1], c[2], "Food") /\ status' = "ok"
       ELSE map' = map /\ status' = "sampling"
    /\ last' = [name |-> "create_food", sample |-> c]
    /\ UNCHANGED <<W, H, snake, state, over, host>>

\* ------------------------------- the Snake methods called directly

\* The record of a direct call kept in `last`: its name, the name of the
\* call before it, whether cut_tail removed an entry.
SnakeCall(nm, c) == [name |-> nm, prev |-> last.name, cut |-> c]

Snake_turn(d) ==
    /\ status = "ok"
    /\ snake' = turn(snake, d)
    /\ last' = SnakeCall("turn", FALSE)
    /\ UNCHANGED <<W, H, map, state, status, over, host>>

Snake_forward ==
    /\ status = "ok"
    /\ Len(snake.tail) < MaxTrail
    /\ snake.head[1] \in (0 - MaxOut) .. (W - 1 + MaxOut)
    /\ snake.head[2] \in (0 - MaxOut) .. (H - 1 + MaxOut)
    /\ snake' = forward(snake)
    /\ last' = SnakeCall("forward", FALSE)
    /\ UNCHANGED <<W, H, map, state, status, over, host>>

Snake_cut_tail ==
    /\ status = "ok"
    /\ snake' = cut_tail_snake(snake)
    /\ map' = cut_tail_map(snake, map)
    /\ status' = IF cut_tail_panics(snake) THEN "panic" ELSE "ok"
    /\ last' = SnakeCall("cut_tail", cut_tail_cuts(snake))
    /\ UNCHANGED <<W, H, state, over, host>>

Snake_place_head ==
    /\ status = "ok"
    /\ IF Map_in_bounds(AsUsize(snake.head[1]), AsUsize(snake.head[2]))
       THEN map' = place_head(snake, map) /\ status' = "ok"
       ELSE map' = map /\ status' = "panic"
    /\ last' = SnakeCall("place_head", FALSE)
    /\ UNCHANGED <<W, H, snake, state, over, host>>

\* The record of a call kept in `last`; freed is the trail entry cut_tail
\* removed, <<>> when it removed none.
Call(nm, d, o, t, c, f) ==
    [name |-> nm, dir |-> d, opp |-> o, tile |-> t, cut |-> c, freed |-> f]

\* The outcomes of Game::new() for the grid W x H.
new_outcomes ==
    LET s  == Snake_new(W \div 2, H \div 2, INITIAL_SNAKE_SIZE)
        m1 == place_head(s, Map_new)
    IN  IF create_food(m1) = {}
        THEN {[map |-> m1, snake |-> s, state |-> "Paused", status |-> "hang"]}
        ELSE {[map |-> m2, snake |-> s, state |-> "Paused", status |-> "ok"] :
                 m2 \in create_food(m1)}

\* Variant of grow: leaves the size as it is.
grow_not(s) == s

\* self.snake.size += 1
grow(s) == [s EXCEPT !.size = @ + 1]

\* Variant of state_after: no game_over() on a Snake tile.
state_after_oobOnly(t, st) == IF t = "OOB" THEN "GameOver" ELSE st

\* Variant of state_after: a move onto an Empty tile resumes the game.
state_after_resume(t, st) ==
    IF t \in {"Snake", "OOB"} THEN "GameOver" ELSE IF t = "Empty" THEN "Running" ELSE st

\* The state move_snake leaves, by what it found at the head: game_over()
\* on a Snake tile and out of bounds, no assignment otherwise.
state_after(t, st) == IF t \in {"Snake", "OOB"} THEN "GameOver" ELSE st

\* Variant of move_tile: the tile is read before cut_tail runs.
move_tile_beforeCut(s1, m) == touching_tile(s1, m)

\* The tile move_snake reads at the head of the snake s1 that forward()
\* left: cut_tail runs first, then touching_tile.
move_tile(s1, m) == touching_tile(cut_tail_snake(s1), cut_tail_map(s1, m))

\* The outcomes of move_snake from (m, s0, st): the resulting map, snake and
\* state, the status of the call, the tile it read at the head ("OOB" when
\* the head is out of bounds, "-" when the call did not get that far),
\* whether cut_tail removed an entry and the entry it removed.
move_outcomes(m, s0, st) ==
    LET s1 == forward(s0)
        s2 == cut_tail_snake(s1)
        m2 == cut_tail_map(s1, m)
        c  == cut_tail_cuts(s1)
        f  == IF c /\ Len(s1.tail) > 0 THEN s1.tail[1] ELSE <<>>
    IN  IF cut_tail_panics(s1)
        THEN {[map |-> m, snake |-> s2, state |-> st, status |-> "panic",
               tile |-> "-", cut |-> c, freed |-> f]}
        ELSE IF ~Snake_in_bounds(s2)
        THEN {[map |-> m2, snake |-> s2, state |-> state_after("OOB", st),
               status |-> "ok", tile |-> "OOB", cut |-> c, freed |-> f]}
        ELSE LET t == move_tile(s1, m) IN
             IF t = "Food"
             THEN IF create_food(m2) = {}
                  THEN {[map |-> m2, snake |-> grow(s2), state |-> st,
                         status |-> "hang", tile |-> t, cut |-> c, freed |-> f]}
                  ELSE {[map |-> place_head(s2, m3), snake |-> grow(s2),
                         state |-> state_after(t, st), status |-> "ok",
                         tile |-> t, cut |-> c, freed |-> f] : m3 \in create_food(m2)}
             ELSE {[map |-> place_head(s2, m2), snake |-> s2,
                    state |-> state_after(t, st), status |-> "ok",
                    tile |-> t, cut |-> c, freed |-> f]}

\* Variant of restart_outcomes: the grid is not cleared first.
restart_outcomes_noClear(m) ==
    LET s  == Snake_new(W \div 2, H \div 2, INITIAL_SNAKE_SIZE)
        m1 == place_head(s, m)
    IN  IF create_food(m1) = {}
        THEN {[map |-> m1, snake |-> s, status |-> "hang"]}
        ELSE {[map |-> m2, snake |-> s, status |-> "ok"] : m2 \in create_food(m1)}

\* The outcomes of restart from map m.
restart_outcomes(m) ==
    LET m0 == [c \in DOMAIN m |-> "Empty"]
        s  == Snake_new(W \div 2, H \div 2, INITIAL_SNAKE_SIZE)
        m1 == place_head(s, m0)
    IN  IF create_food(m1) = {}
        THEN {[map |-> m1, snake |-> s, status |-> "hang"]}
        ELSE {[map |-> m2, snake |-> s, status |-> "ok"] : m2 \in create_food(m1)}

\* --------------------------------------------------------------- actions

Dims == {d \in (1 .. MaxCells) \X (1 .. MaxCells) : d[1] * d[2] <= MaxCells}

LineDims == (1 .. LineMax) \X (1 .. LineMax)

PlayDims ==
    {d \in (1 .. MaxPlayCells) \X (1 .. MaxPlayCells) : d[1] * d[2] <= MaxPlayCells}

SnakeDims ==
    {d \in (1 .. MaxSnakeCells) \X (1 .. MaxSnakeCells) : d[1] * d[2] <= MaxSnakeCells}

new(dims) ==
    /\ \E d \in dims : W = d[1] /\ H = d[2]
    /\ \E r \in new_outcomes :
          /\ map = r.map
          /\ snake = r.snake
          /\ state = r.state
          /\ status = r.status
    /\ last = Call("new", "-", FALSE, "-", FALSE, <<>>)
    /\ over = 0

turn_snake(d) ==
    /\ status = "ok"
    /\ snake' = turn(snake, d)
    /\ last' = Call("turn", d, opposite(snake.dir, d), "-", FALSE, <<>>)
    /\ UNCHANGED <<W, H, map, state, status, over>>

move_snake ==
    /\ status = "ok"
    /\ state = "GameOver" => over < MaxOverMoves
    /\ over' = IF state = "GameOver" THEN over + 1 ELSE over
    /\ \E r \in move_outcomes(map, snake, state) :
          /\ map' = r.map
          /\ snake' = r.snake
          /\ state' = r.state
          /\ status' = r.status
          /\ last' = Call("move", "-", FALSE, r.tile, r.cut, r.freed)
    /\ UNCHANGED <<W, H>>

game_over ==
    /\ status = "ok"
    /\ state' = "GameOver"
    /\ last' = Call("game_over", "-", FALSE, "-", FALSE, <<>>)
    /\ UNCHANGED <<W, H, map, snake, status, over>>

restart ==
    /\ status = "ok"
    /\ \E r \in restart_outcomes(map) :
          /\ map' = r.map
          /\ snake' = r.snake
          /\ status' = r.status
          /\ state' = IF r.status = "ok" THEN "Paused" ELSE state
    /\ last' = Call("restart", "-", FALSE, "-", FALSE, <<>>)
    /\ over' = 0
    /\ UNCHANGED <<W, H, host>>

\* The host writes the public field: game.state = State::Running, inside
\* its loop `while game.state != State::GameOver`.
set_running ==
    /\ status = "ok"
    /\ state # "GameOver"
    /\ state' = "Running"
    /\ last' = Call("set_running", "-", FALSE, "-", FALSE, <<>>)
    /\ UNCHANGED <<W, H, map, snake, status, over>>

\* ----------------------------------------- bin/terminal_snake.rs: the host

\* The input events: the four arrow keys and Backspace pressed, and Other
\* for every other event (another key pressed, a key released or repeated,
\* a mouse, resize, focus or paste event).
Keys == {"Left", "Right", "Up", "Down", "Backspace", "Other"}

\* The `dir` of capture_inputs: Some(direction), or "-" for Option::None.
key_dir(k) ==
    IF k \in Cardinal THEN k ELSE IF k = "Backspace" THEN "None" ELSE "-"

\* Whether capture_inputs takes the direction d as its new `last`.
input_takes(l, d) == ~opposite(l, d) \/ d = "None"

\* The value capture_inputs passes to sender.send for the event k when its
\* `last` is l; "-" when it sends nothing.
input_sends(l, k) ==
    IF key_dir(k) # "-"
    THEN IF input_takes(l, key_dir(k)) THEN key_dir(k) ELSE "-"
    ELSE l

\* The `last` of capture_inputs after the event k.
input_last(l, k) ==
    IF key_dir(k) # "-" /\ input_takes(l, key_dir(k)) THEN key_dir(k) ELSE l

\* The host when no host runs the game.
NoHost ==
    [pc |-> "none", dir |-> "-", chan |-> <<>>, rx |-> "open",
     ilast |-> "None", ithread |-> "none", turns |-> 0,
     key |-> "-", sent |-> "-", bksp |-> FALSE]

\* main at the head of its loop, the channel made and the input thread
\* started with last = Direction::None.
HostStart ==
    [pc |-> "while", dir |-> "-", chan |-> <<>>, rx |-> "open",
     ilast |-> "None", ithread |-> "running", turns |-> 0,
     key |-> "-", sent |-> "-", bksp |-> FALSE]

\* One round of the loop of capture_inputs: event::read() returns the
\* event k. A send succeeds while the receiver lives and fails after it was
\* dropped; the failure ends the thread.
capture_inputs(k) ==
    /\ host.ithread = "running"
    /\ LET v == input_sends(host.ilast, k)
           delivered == v # "-" /\ host.rx = "open"
           refused == v # "-" /\ host.rx = "dropped"
       IN  /\ delivered => Len(host.chan) < MaxChan
           /\ host' = [host EXCEPT
                         !.key = k,
                         !.sent = v,
                         !.bksp = @ \/ k = "Backspace",
                         !.ilast = input_last(host.ilast, k),
                         !.chan = IF delivered THEN Append(@, v) ELSE @,
                         !.ithread = IF refused THEN "ended" ELSE @]
    /\ UNCHANGED <<W, H, map, snake, state, status, last, over>>

\* while game.state != State::GameOver
host_while ==
    /\ status = "ok"
    /\ host.pc = "while"
    /\ host' = [host EXCEPT !.pc = IF state # "GameOver" THEN "recv" ELSE "drop"]
    /\ UNCHANGED <<W, H, map, snake, state, status, last, over>>

\* receiver.try_iter().last() finds the channel empty.
host_recv_nothing ==
    /\ status = "ok"
    /\ host.pc = "recv"
    /\ host.chan = <<>>
    /\ host' = [host EXCEPT !.pc = "tick"]
    /\ UNCHANGED <<W, H, map, snake, state, status, last, over>>

\* The channel is drained and its last direction is None: game_over().
host_recv_quit ==
    /\ host.pc = "recv"
    /\ host.chan # <<>>
    /\ host.chan[Len(host.chan)] = "None"
    /\ game_over
    /\ host' = [host EXCEPT !.pc = "tick", !.chan = <<>>]

\* The channel is drained and its last direction is cardinal:
\* game.state = State::Running, then turn_snake(dir).
host_recv_dir ==
    /\ host.pc = "recv"
    /\ host.chan # <<>>
    /\ host.chan[Len(host.chan)] # "None"
    /\ set_running
    /\ host' = [host EXCEPT !.pc = "turn", !.chan = <<>>,
                            !.dir = host.chan[Len(host.chan)]]

host_turn ==
    /\ host.pc = "turn"
    /\ turn_snake(host.dir)
    /\ host' = [host EXCEPT !.pc = "tick", !.dir = "-", !.turns = @ + 1]

\* Variant of tick_moves: the snake is moved in every round.
tick_moves_always(st) == st = st

\* if game.state == State::Running
tick_moves(st) == st = "Running"

host_tick_move ==
    /\ host.pc = "tick"
    /\ tick_moves(state)
    /\ move_snake
    /\ host' = [host EXCEPT !.pc = "while", !.turns = 0]

host_tick_skip ==
    /\ status = "ok"
    /\ host.pc = "tick"
    /\ ~tick_moves(state)
    /\ host' = [host EXCEPT !.pc = "while"]
    /\ UNCHANGED <<W, H, map, snake, state, status, last, over>>

\* drop(receiver): what the channel still holds is discarded.
host_drop ==
    /\ status = "ok"
    /\ host.pc = "drop"
    /\ host' = [host EXCEPT !.pc = "join", !.rx = "dropped", !.chan = <<>>]
    /\ UNCHANGED <<W, H, map, snake, state, status, last, over>>

\* input_handle.join() returns once the input thread has ended.
host_join ==
    /\ status = "ok"
    /\ host.pc = "join"
    /\ host.ithread = "ended"
    /\ host' = [host EXCEPT !.pc = "exit"]
    /\ UNCHANGED <<W, H, map, snake, state, status, last, over>>

\* ------------------------------------------------- Spec: any call sequence

Init == new(Dims) /\ host = NoHost

TurnSnake == (\E d \in Direction : turn_snake(d)) /\ UNCHANGED host

MoveSnake == (move_snake) /\ UNCHANGED host

GameOverCall == (game_over) /\ UNCHANGED host

Restart == restart

SetRunning == (set_running) /\ UNCHANGED host

Next == TurnSnake \/ MoveSnake \/ GameOverCall \/ Restart \/ SetRunning

Spec == Init /\ [][Next]_vars

\* ------------ SpecLine: new(), one cardinal turn, then only move_snake

LineInit == new(LineDims) /\ host = NoHost

LineTurn == (last.name = "new" /\ \E d \in Cardinal : turn_snake(d)) /\ UNCHANGED host

LineMove == (last.name # "new" /\ move_snake) /\ UNCHANGED host

LineNext == LineTurn \/ LineMove

SpecLine == LineInit /\ [][LineNext]_vars

\* ------- SpecPlay: the loop of the crate's example (lib.rs 17-21), which
\* turns and moves the snake while state is not GameOver, with restart()
\* and the host's state write at any time

PlayInit == new(PlayDims) /\ host = NoHost

PlayTurn == (state # "GameOver" /\ \E d \in Direction : turn_snake(d)) /\ UNCHANGED host

PlayMove == (state # "GameOver" /\ move_snake) /\ UNCHANGED host

PlayRestart == restart

PlaySetRunning == (set_running) /\ UNCHANGED host

PlayNext == PlayTurn \/ PlayMove \/ PlayRestart \/ PlaySetRunning

SpecPlay == PlayInit /\ [][PlayNext]_vars

\* ----- SpecFood: new(), then create_food() called again and again; every
\* cell is sampled again and again (the fairness of the random source)

AllCells == (0 .. MaxCells - 1) \X (0 .. MaxCells - 1)

FoodInit == new(Dims) /\ host = NoHost

FoodCall == create_food_call

FoodSample == \E c \in AllCells : create_food_sample(c)

FoodNext == FoodCall \/ FoodSample

SpecFood ==
    /\ FoodInit
    /\ [][FoodNext]_vars
    /\ \A c \in AllCells : WF_vars(create_food_sample(c))

\* ----- SpecHost: main of terminal_snake and its input thread, on a small
\* grid in place of MAP_WIDTH x MAP_HEIGHT, any input event at any time.
\* The grid has a cell for the first Food, as the host's has.

HostDims ==
    {d \in (1 .. MaxHostCells) \X (1 .. MaxHostCells) :
        2 <= d[1] * d[2] /\ d[1] * d[2] <= MaxHostCells}

HostInit == new(HostDims) /\ host = HostStart

HostInput == \E k \in Keys : capture_inputs(k)

HostWhile == host_while

HostRecv == host_recv_nothing \/ host_recv_quit \/ host_recv_dir

HostTurn == host_turn

HostTick == host_tick_move \/ host_tick_skip

HostDrop == host_drop

HostJoin == host_join

HostNext ==
    HostInput \/ HostWhile \/ HostRecv \/ HostTurn \/ HostTick \/ HostDrop \/ HostJoin

SpecHost == HostInit /\ [][HostNext]_vars

\* ----- SpecMap: Map::new(), then get and set with any usize arguments

MapDims ==
    {d \in (1 .. MaxMapCells) \X (1 .. MaxMapCells) : d[1] * d[2] <= MaxMapCells}

\* The arguments tried: the columns or rows, the first one past them, and
\* the usize a coordinate of -1 is cast to.
MapArgs(k) == (0 .. k) \cup {AsUsize(-1)}

MapInit ==
    /\ \E d \in MapDims : W = d[1] /\ H = d[2]
    /\ map = Map_new
    /\ snake = Snake_new(W \div 2, H \div 2, INITIAL_SNAKE_SIZE)
    /\ state = "Paused"
    /\ status = "ok"
    /\ last = MapCall("new", 0, 0, "-")
    /\ over = 0
    /\ host = NoHost

MapGet == \E x \in MapArgs(W), y \in MapArgs(H) : Map_get_call(x, y)

MapSet == \E x \in MapArgs(W), y \in MapArgs(H), t \in Tile : Map_set_call(x, y, t)

MapNext == MapGet \/ MapSet

SpecMap == MapInit /\ [][MapNext]_vars

\* ----- SpecSnake: a Snake and a Map::new(), the Snake methods in any order

SnakeInit ==
    /\ \E d \in SnakeDims : W = d[1] /\ H = d[2]
    /\ map = Map_new
    /\ \E c \in Cells, sz \in 0 .. MaxSnakeSize : snake = Snake_new(c[1], c[2], sz)
    /\ state = "Paused"
    /\ status = "ok"
    /\ last = [name |-> "new", prev |-> "-", cut |-> FALSE]
    /\ over = 0
    /\ host = NoHost

SnakeTurn == \E d \in Direction : Snake_turn(d)

SnakeForward == Snake_forward

SnakeCutTail == Snake_cut_tail

SnakePlaceHead == Snake_place_head

SnakeNext == SnakeTurn \/ SnakeForward \/ SnakeCutTail \/ SnakePlaceHead

SpecSnake == SnakeInit /\ [][SnakeNext]_vars

\* ------------------------------------------------------------ properties

FoodCells(m) == {c \in DOMAIN m : m[c] = "Food"}

FoodCount(m) == Cardinality(FoodCells(m))

\* The head as a cell of the grid (meaningful when the head is in bounds).
HeadCell(s) == <<s.head[1], s.head[2]>>

\* The head lies outside [0, W) x [0, H).
Outside(s) == s.head[1] < 0 \/ s.head[1] >= W \/ s.head[2] < 0 \/ s.head[2] >= H

\* The step is a call of move_snake that returned.
MoveReturned == last'.name = "move" /\ status' = "ok"

\* C1: whenever a call has returned and state is not GameOver, exactly one
\* cell of the grid holds Food.
C1_OneFood == (status = "ok" /\ state # "GameOver") => FoodCount(map) = 1

\* C1 witness: the snake has just eaten, the game goes on, one Food is there.
C1_Witness ==
    /\ last.name = "move" /\ last.tile = "Food" /\ status = "ok"
    /\ state # "GameOver"
    /\ FoodCount(map) = 1

\* C2: a move_snake that finds Food at the head and returns has raised the
\* size by exactly 1, has put the new Food on a cell that was Empty when
\* create_food ran and is not the head cell, leaves the head cell Snake and
\* leaves exactly one Food on the grid.
C2_EatFood ==
    [][(MoveReturned /\ last'.tile = "Food") =>
          /\ snake'.size = snake.size + 1
          /\ map'[HeadCell(snake')] = "Snake"
          /\ FoodCount(map') = 1
          /\ \A c \in FoodCells(map') :
                /\ c # HeadCell(snake')
                /\ cut_tail_map(forward(snake), map)[c] = "Empty"]_vars

\* C2 witness: a move has just eaten while the game was on.
C2_Witness ==
    /\ last.name = "move" /\ last.tile = "Food" /\ status = "ok"
    /\ snake.size > INITIAL_SNAKE_SIZE
    /\ map[HeadCell(snake)] = "Snake"
    /\ over = 0

\* C3: a move_snake that returns leaves state GameOver when the head after
\* forward() is outside the grid or the tile under it, read after cut_tail,
\* is Snake; otherwise it leaves state as it was.
C3_GameOverIff ==
    [][MoveReturned =>
          LET s1 == forward(snake)
              hit == \/ Outside(s1)
                     \/ cut_tail_map(s1, map)[HeadCell(s1)] = "Snake"
          IN  state' = IF hit THEN "GameOver" ELSE state]_vars

\* C3 witness: a move took the head to a negative coordinate and ended the
\* game that was on until then.
C3_Witness ==
    /\ last.name = "move" /\ last.tile = "OOB" /\ status = "ok"
    /\ (snake.head[1] < 0 \/ snake.head[2] < 0)
    /\ state = "GameOver"
    /\ over = 0

\* C4: once state is GameOver it stays GameOver through every call but
\* restart.
C4_GameOverTerminal ==
    [][(state = "GameOver" /\ last'.name # "restart") => state' = "GameOver"]_vars

\* C4 witness: after a collision, a later move_snake onto an Empty tile has
\* returned and state is still GameOver.
C4_Witness ==
    /\ state = "GameOver" /\ status = "ok"
    /\ last.name = "move" /\ last.tile = "Empty"
    /\ over >= 2

\* C5 as stated: a move_snake that ends the game (head out of bounds or on
\* a Snake tile) leaves every cell of the grid as it was. Stated for the
\* calls made while the game is still on, which the claim covers in any
\* reading.
C5_NoGridChange ==
    [][(MoveReturned /\ last'.tile \in {"OOB", "Snake"} /\ state # "GameOver")
          => map' = map]_vars

\* C5 amended: in such a call the only cell whose tile can differ is the
\* oldest trail cell, removed by cut_tail because the trail had reached the
\* size, and that cell is Empty afterwards.
C5_OnlyTailFreed ==
    [][(MoveReturned /\ last'.tile \in {"OOB", "Snake"}) =>
          \A c \in DOMAIN map :
              map'[c] # map[c] =>
                  /\ cut_tail_cuts(forward(snake))
                  /\ c = forward(snake).tail[1]
                  /\ map'[c] = "Empty"]_vars

\* C5 witness: a move ran out of bounds, ending the game, after cut_tail
\* had removed the oldest trail cell.
C5_Witness ==
    /\ last.name = "move" /\ last.tile = "OOB" /\ last.cut /\ status = "ok"
    /\ state = "GameOver"
    /\ over = 0

Abs(v) == IF v < 0 THEN -v ELSE v

\* The cell new() and restart() put the snake on.
Centre == <<W \div 2, H \div 2>>

\* In SpecLine the snake keeps one cardinal direction, so the number of
\* move_snake calls so far is the distance of the head from the centre.
Moved(s) == Abs(s.head[1] - Centre[1]) + Abs(s.head[2] - Centre[2])

\* The number of the move that takes the head out of the grid when the
\* snake runs from the centre in direction d.
ExitMove(d) ==
    CASE d = "Right" -> W - Centre[1]
      [] d = "Left"  -> Centre[1] + 1
      [] d = "Down"  -> H - Centre[2]
      [] d = "Up"    -> Centre[2] + 1

\* The grid of a fresh game: the centre Snake, one Food elsewhere, every
\* other cell Empty.
FreshGrid(m) ==
    /\ m[Centre] = "Snake"
    /\ FoodCount(m) = 1
    /\ \A c \in DOMAIN m : c # Centre /\ c \notin FoodCells(m) => m[c] = "Empty"

\* C6: from a fresh game, after turn_snake(d) with d cardinal and only
\* move_snake calls, every call up to one past the move that leaves the grid
\* returns, and state is GameOver exactly from that move on (the third move
\* on a 5 x 5 grid with d = Right).
C6_StraightLine ==
    (last.name = "move" /\ Moved(snake) <= ExitMove(snake.dir) + 1) =>
        /\ status = "ok"
        /\ state = "GameOver" <=> Moved(snake) >= ExitMove(snake.dir)
        /\ (W = 5 /\ H = 5 /\ snake.dir = "Right") => ExitMove(snake.dir) = 3

\* C6 on the grids of three cells or more, where the claim's runs meet no
\* full grid: the same statement.
C6_StraightLineFromThreeCells ==
    (W * H >= 3 /\ last.name = "move" /\ Moved(snake) <= ExitMove(snake.dir) + 1) =>
        /\ status = "ok"
        /\ state = "GameOver" <=> Moved(snake) >= ExitMove(snake.dir)
        /\ (W = 5 /\ H = 5 /\ snake.dir = "Right") => ExitMove(snake.dir) = 3

\* C7: restart() returns, and leaves state Paused, a snake of size 3 facing
\* None with an empty trail and its head on the centre, the centre Snake,
\* exactly one Food and every other cell Empty.
C7_Restart ==
    [][last'.name = "restart" =>
          /\ status' = "ok"
          /\ state' = "Paused"
          /\ snake' = [head |-> Centre, dir |-> "None", size |-> 3, tail |-> <<>>]
          /\ FreshGrid(map')]_vars

\* C7 witness: restart() has returned and left a fresh game.
C7_Witness ==
    /\ last.name = "restart" /\ status = "ok"
    /\ state = "Paused"
    /\ snake.size = 3
    /\ FreshGrid(map)

\* C8: for every grid, new() returns a game with state Paused, a snake of
\* size 3 facing None with an empty trail, the centre Snake, exactly one
\* Food on another cell and every other cell Empty.
C8_NewCompletes ==
    last.name = "new" =>
        /\ status = "ok"
        /\ state = "Paused"
        /\ snake = [head |-> Centre, dir |-> "None", size |-> 3, tail |-> <<>>]
        /\ FreshGrid(map)

\* C9: turn_snake(d) leaves the direction as it is when d is opposite to it
\* and sets it to d otherwise; head, size, trail, grid and state stay.
C9_TurnFrame ==
    [][last'.name = "turn" =>
          /\ snake'.dir = IF opposite(snake.dir, last'.dir) THEN snake.dir
                          ELSE last'.dir
          /\ snake'.head = snake.head
          /\ snake'.size = snake.size
          /\ snake'.tail = snake.tail
          /\ map' = map
          /\ state' = state]_vars

\* C9 witness: a turn into the opposite of a cardinal direction has been
\* ignored.
C9_Witness ==
    /\ last.name = "turn" /\ last.opp
    /\ snake.dir \in Cardinal
    /\ last.dir \in Cardinal
    /\ last.dir # snake.dir

\* C10: for the direction a the snake faces (each of the five is reached)
\* and every direction b, opposite(a, b) = opposite(b, a); opposite holds
\* for (Left, Right) and (Up, Down), fails for (a, a) with a cardinal, holds
\* for (None, None), and None opposes no cardinal direction.
C10_Opposite ==
    LET a == snake.dir IN
    /\ \A b \in Direction : opposite(a, b) = opposite(b, a)
    /\ a = "Left" => opposite(a, "Right")
    /\ a = "Up" => opposite(a, "Down")
    /\ opposite(a, a) <=> a = "None"
    /\ a \in Cardinal => ~opposite("None", a) /\ ~opposite(a, "None")

\* C10 witness: a turn_snake(None) on a snake facing None has evaluated
\* None.opposite(None) to true.
C10_Witness ==
    /\ last.name = "turn" /\ last.dir = "None" /\ last.opp
    /\ snake.dir = "None"

\* C11: a cut_tail that returns removes the oldest trail entry and sets that
\* cell, and no other, to Empty when the trail length is at least the size,
\* and changes neither trail nor grid otherwise; right after a forward() on
\* a trail as long as the size, it leaves the trail at that length, with the
\* oldest entry dropped and the head forward() moved from as newest entry
\* (with size 0 that entry is itself the one dropped).
C11_CutTail ==
    [][(last'.name = "cut_tail" /\ status' = "ok") =>
          /\ IF Len(snake.tail) >= snake.size
             THEN /\ Len(snake.tail) > 0
                  /\ snake'.tail = Tail(snake.tail)
                  /\ map' = [map EXCEPT ![snake.tail[1]] = "Empty"]
             ELSE snake'.tail = snake.tail /\ map' = map
          /\ (last.name = "forward" /\ Len(snake.tail) - 1 = snake.size) =>
                /\ Len(snake'.tail) = snake.size
                /\ snake.size >= 1 =>
                       snake'.tail[Len(snake'.tail)] =
                           <<AsUsize(snake.head[1] - Direction_x(snake.dir)),
                             AsUsize(snake.head[2] - Direction_y(snake.dir))>>
                /\ \A i \in 1 .. snake.size - 1 : snake'.tail[i] = snake.tail[i + 1]]_vars

\* C11 witness: cut_tail has returned right after a forward() on a trail as
\* long as the size (at least 1), and has removed the oldest entry.
C11_Witness ==
    /\ last.name = "cut_tail" /\ last.prev = "forward" /\ last.cut
    /\ status = "ok"
    /\ snake.size >= 1
    /\ Len(snake.tail) = snake.size

\* C12: when the cell the head moves to is the oldest trail cell and
\* cut_tail removes that cell in the same move_snake, the call returns
\* without setting GameOver, the snake does not grow and the cell ends as
\* Snake.
C12_NoFalseCollision ==
    [][(last'.name = "move" /\
        LET s1 == forward(snake)
        IN  /\ cut_tail_cuts(s1)
            /\ <<AsUsize(s1.head[1]), AsUsize(s1.head[2])>> = s1.tail[1]) =>
          /\ status' = "ok"
          /\ state' = state
          /\ state' # "GameOver"
          /\ snake'.size = snake.size
          /\ map'[HeadCell(snake')] = "Snake"]_vars

\* C12 witness: in a game that is on, a snake at full length has moved its
\* head onto the cell cut_tail freed in that move.
C12_Witness ==
    /\ last.name = "move" /\ last.cut /\ status = "ok"
    /\ last.freed = HeadCell(snake)
    /\ snake.dir \in Cardinal
    /\ Len(snake.tail) = snake.size - 1
    /\ state # "GameOver"
    /\ map[HeadCell(snake)] = "Snake"

\* C13: every call of move_snake made in a game that is on returns.
C13_MoveTerminates == last.name = "move" => status = "ok"

\* C14: a create_food that returns has changed exactly one cell, from
\* Empty to Food; while it samples it changes no cell; and when a cell is
\* Empty and every cell keeps being sampled, it returns.
C14_CreateFood ==
    /\ [][(status = "sampling" /\ status' = "ok") =>
             \E c \in DOMAIN map :
                 /\ map[c] = "Empty"
                 /\ map' = [map EXCEPT ![c] = "Food"]]_vars
    /\ [][(status = "sampling" /\ status' = "sampling") => map' = map]_vars
    /\ ((status = "sampling" /\ EmptyCells(map) # {}) ~> status = "ok")

\* C14 witness: create_food has returned after sampling an Empty cell, on
\* a grid that held Snake and Food cells already and still holds them.
C14_Witness ==
    /\ last.name = "create_food" /\ status = "ok"
    /\ last.sample \in FoodCells(map)
    /\ FoodCount(map) >= 2
    /\ map[Centre] = "Snake"

\* The arguments of the call in `last` lie in [0, W) x [0, H).
ArgsInGrid(l) == 0 <= l.x /\ l.x < W /\ 0 <= l.y /\ l.y < H

\* C15: after Map::new() every cell is Empty; get and set return exactly
\* when 0 <= x < W and 0 <= y < H and fail the assertion otherwise; a set
\* that returns changes cell (x, y) to t and no other cell; a get that
\* returns gives the tile of (x, y) and changes nothing, hence t right
\* after set(x, y, t).
C15_Map ==
    /\ [](last.name = "new" => \A c \in Cells : map[c] = "Empty")
    /\ [][last'.name \in {"get", "set"} =>
             (status' = "ok" <=> ArgsInGrid(last'))]_vars
    /\ [][(last'.name = "set" /\ status' = "ok") =>
             /\ DOMAIN map' = DOMAIN map
             /\ \A c \in DOMAIN map :
                   map'[c] = IF c = <<last'.x, last'.y>> THEN last'.tile ELSE map[c]]_vars
    /\ [][(last'.name = "get" /\ status' = "ok") =>
             /\ map' = map
             /\ last'.tile = map[<<last'.x, last'.y>>]
             /\ (last.name = "set" /\ last.x = last'.x /\ last.y = last'.y) =>
                   last'.tile = last.tile]_vars

\* C15 witness: a get has returned the tile, not Empty, that the set right
\* before it wrote, while another cell is still Empty.
C15_Witness ==
    /\ last.name = "get" /\ status = "ok"
    /\ last.tile # "Empty"
    /\ map[<<last.x, last.y>>] = last.tile
    /\ \E c \in Cells : map[c] = "Empty"

\* The displacement of the head on the latest tick, read off the snake: the
\* newest trail entry is the cell the head left (forward pushes it, and no
\* other call but new and restart touches head or trail).
LastStep(s) ==
    IF Len(s.tail) = 0 THEN <<0, 0>>
    ELSE <<s.head[1] - s.tail[Len(s.tail)][1], s.head[2] - s.tail[Len(s.tail)][2]>>

CardinalSteps == {<<Direction_x(d), Direction_y(d)>> : d \in Cardinal}

\* C16: whatever turn_snake calls are made between two consecutive
\* move_snake calls, the head does not move on the second tick in the
\* direction opposite to the one it moved in on the first tick.
C16_NoReversal ==
    [][(last'.name = "move" /\ state # "GameOver" /\ LastStep(snake) \in CardinalSteps) =>
          <<snake'.head[1] - snake.head[1], snake'.head[2] - snake.head[2]>>
             # <<0 - LastStep(snake)[1], 0 - LastStep(snake)[2]>>]_vars

\* C17: whatever calls are made, also while state is GameOver, the
\* assertion of Map::get and Map::set never fails and every coordinate
\* stored in the trail lies inside the grid.
C17_BoundsChecked ==
    /\ status # "panic"
    /\ \A i \in 1 .. Len(snake.tail) : snake.tail[i] \in Cells

\* The cells of the snake: the trail entries and the head.
SnakeCells(s) == {s.tail[i] : i \in 1 .. Len(s.tail)} \cup {HeadCell(s)}

\* C18: whenever a call has returned and state is not GameOver, the head is
\* in bounds, the trail cells and the head cell are pairwise distinct, the
\* Snake tiles of the grid are exactly these cells, and their number, trail
\* length plus one, does not exceed the target size.
C18_SnakeOnGrid ==
    (status = "ok" /\ state # "GameOver") =>
        /\ ~Outside(snake)
        /\ Cardinality(SnakeCells(snake)) = Len(snake.tail) + 1
        /\ {c \in DOMAIN map : map[c] = "Snake"} = SnakeCells(snake)
        /\ Len(snake.tail) + 1 <= snake.size

\* C18 witness: a snake that has eaten and grown to its full target size,
\* bent around a corner, in a game that goes on.
C18_Witness ==
    /\ status = "ok" /\ state # "GameOver" /\ last.name = "move"
    /\ snake.size > INITIAL_SNAKE_SIZE
    /\ Len(snake.tail) + 1 = snake.size
    /\ \E i \in 1 .. Len(snake.tail) :
          snake.tail[i][1] # snake.head[1] /\ snake.tail[i][2] # snake.head[2]

C20_NoneMove ==
    [][(MoveReturned /\ snake.dir = "None") =>
          /\ snake'.head = snake.head
          /\ last'.tile = "Snake"
          /\ state' = "GameOver"]_vars

\* C20 amended: every move_snake made while the snake faces None leaves the
\* head where it is and leaves state GameOver; made while state is not
\* GameOver it reads the tile Snake under the head.
C20_NoneMoveInPlay ==
    [][(MoveReturned /\ snake.dir = "None") =>
          /\ snake'.head = snake.head
          /\ state' = "GameOver"
          /\ state # "GameOver" =>
                /\ map[HeadCell(snake)] = "Snake"
                /\ last'.tile = "Snake"]_vars

\* C20 witness: a game in play was ended by a move made after
\* turn_snake(None): the head rests on the cell it pushed into the trail,
\* behind it the cells of earlier moves.
C20_Witness ==
    /\ last.name = "move" /\ status = "ok"
    /\ state = "GameOver" /\ over = 0
    /\ snake.dir = "None" /\ last.tile = "Snake"
    /\ Len(snake.tail) >= 2
    /\ snake.tail[Len(snake.tail)] = HeadCell(snake)
    /\ snake.tail[1] # HeadCell(snake)

\* C21: in the loop of the terminal host every call of move_snake is made
\* while state is Running, hence not GameOver, and while the snake faces a
\* cardinal direction, and at most one call of turn_snake has been made
\* since the call of move_snake before it.
C21_HostMoves ==
    [][(host.pc = "tick" /\ move_snake) =>
          /\ state = "Running"
          /\ state # "GameOver"
          /\ snake.dir \in Cardinal
          /\ host.turns <= 1]_vars

\* C21 witness: the host has moved the snake in a round in which it
\* received no direction, after an earlier round in which it turned it.
C21_Witness ==
    /\ host.pc = "while" /\ last.name = "move" /\ status = "ok"
    /\ state = "Running"
    /\ snake.dir \in Cardinal
    /\ Len(snake.tail) >= 2

\* The step is one round of capture_inputs in which a direction was sent
\* and received by the channel.
Delivered == (\E k \in Keys : capture_inputs(k)) /\ Len(host'.chan) = Len(host.chan) + 1

\* C22: the input thread sends Direction::None over the channel only when
\* the event it handles is a press of Backspace, and the loop of main calls
\* game_over() only after Backspace was pressed.
C22_NoneOnlyBackspace ==
    /\ [][(Delivered /\ host'.sent = "None") => host'.key = "Backspace"]_vars
    /\ [][(host.pc = "recv" /\ game_over) => host.bksp]_vars

\* C23: once the receiver is dropped, the round of capture_inputs for the
\* next input event, whichever it is, ends the input thread.
C23_AnyKeyEndsInput ==
    [][((\E k \in Keys : capture_inputs(k)) /\ host.rx = "dropped") =>
          host'.ithread = "ended"]_vars

====
